---------------------------- MODULE Spec2Model ----------------------------
(***************************************************************************)
(* Head-pose estimator of exam-vision-client: the PnP core                 *)
(* (headPoseUtils / pnp-rodrigues) and the frame loop of ProctorMainWindow.*)
(*                                                                         *)
(* JavaScript numbers are IEEE binary64.  They are modelled as decimal     *)
(* floating-point numbers with a significand of Digits digits, every       *)
(* operation correctly rounded (round half to even): a value is a record   *)
(* [m, e] standing for m * 10^e with 10^(Digits-1) <= |m| < 10^Digits, or  *)
(* m = 0.                                                                  *)
(***************************************************************************)
EXTENDS Integers, Sequences, FiniteSets, TLC

VARIABLES
    \* one call of solve6x6(A, b)
    sA,        \* the argument A, a flat array of 36 numbers
    sb,        \* the argument b
    sM,        \* the local matrix M
    sB,        \* the local copy B of b
    sCol,      \* the outer loop variable i of the forward elimination
    sRes,      \* the returned value: Null or the vector x
    sPc        \* "call", "elim", "back", "done"

solveVars == <<sA, sb, sM, sB, sCol, sRes, sPc>>

VARIABLES
    \* one call of rotationMatrixToEulerAngles(R)
    eR,        \* the argument R, a flat row-major array of 9 numbers
    eOut,      \* the returned {pitch, yaw, roll}
    ePc        \* "call", "done"

eulerVars == <<eR, eOut, ePc>>

VARIABLES
    \* calls of solvePnP; the locals of refinePose
    scene,     \* the arguments of the running call (see computeJacobian)
    rvec,      \* let rvec
    tvec,      \* let tvec
    lambda,    \* let lambda
    prevError, \* let prevError
    iter,      \* the loop variable iter
    lmPc,      \* "idle", "call", "loop", "exit", "done"
    lmExit,    \* which statement left the loop: "", "converged", "solver", "maxIter"
    evals,     \* the iterates evaluated in this call: <<[rvec, tvec, error]>>
    lmRes,     \* the value returned by the call
    callLog    \* the finished calls: <<[args, result]>>

lmVars == <<scene, rvec, tvec, lambda, prevError, iter, lmPc, lmExit, evals,
            lmRes, callLog>>

VARIABLES
    \* the component ProctorMainWindow
    initPc,        \* init(): "wasm", "model", "camera", "done", "rejected"
    landmarker,    \* faceLandmarkerRef.current is set
    handlerSet,    \* videoRef.current.srcObject and onloadeddata are set
    loaded,        \* the loadeddata event of the stream has fired
    playing,       \* the video is neither paused nor ended
    rafPending,    \* requested animation-frame callbacks not yet run
    awaiting,      \* detectFace invocations suspended at their await
    frameNo,       \* animation-frame callbacks run so far
    faceAngles,    \* the state faceAngles
    coreCalls,     \* the calls of computeHeadPose: <<[frame, landmarks]>>
    frameLog       \* the finished detectFace invocations

frameVars == <<initPc, landmarker, handlerSet, loaded, playing, rafPending,
               awaiting, frameNo, faceAngles, coreCalls, frameLog>>

vars == <<solveVars, eulerVars, lmVars, frameVars>>

\* What an operation of one part leaves alone.
notSolve == <<eulerVars, lmVars, frameVars>>
notEuler == <<solveVars, lmVars, frameVars>>
notLM == <<solveVars, eulerVars, frameVars>>
notFrame == <<solveVars, eulerVars, lmVars>>

\* Significand length of the modelled floating-point numbers.
Digits == 3

\* F(v), F(v, w), F(u, v, w) with the arguments computed once each.
Bind(v, F(_)) == CHOOSE r \in {F(x) : x \in {v}} : TRUE

Bind2(v, w, F(_, _)) == CHOOSE r \in {F(x, y) : x \in {v}, y \in {w}} : TRUE

Bind3(u, v, w, F(_, _, _)) ==
    CHOOSE r \in {F(x, y, z) : x \in {u}, y \in {v}, z \in {w}} : TRUE

\* The array f with every entry computed: an array is built once, like the
\* array the code fills, and not recomputed at each read.
Tab(f) == f @@ <<>>

Pow10(k) == 10 ^ k

Abs(n) == IF n < 0 THEN -n ELSE n

Sgn(n) == IF n < 0 THEN -1 ELSE IF n > 0 THEN 1 ELSE 0

NumDigits(n) ==
    IF n < 10 THEN 1 ELSE IF n < 100 THEN 2 ELSE IF n < 1000 THEN 3
    ELSE IF n < 10000 THEN 4 ELSE IF n < 100000 THEN 5
    ELSE IF n < 1000000 THEN 6 ELSE IF n < 10000000 THEN 7
    ELSE IF n < 100000000 THEN 8 ELSE IF n < 1000000000 THEN 9 ELSE 10

FZero == [m |-> 0, e |-> 0]

\* Infinity (the initial prevError): a value beyond every finite number.
Infinity == [m |-> 1, e |-> 9999]

IsInf(a) == a.e = Infinity.e

\* |n| * 10^e of k > Digits digits, cut to Digits digits, ties to even.
RoundDown(sign, a, k, e) ==
    Bind3(Pow10(k - Digits), a \div Pow10(k - Digits), a % Pow10(k - Digits),
          LAMBDA p, q, r :
            Bind(IF (2 * r > p) \/ (2 * r = p /\ q % 2 = 1) THEN q + 1 ELSE q,
                 LAMBDA q2 :
                   IF q2 = Pow10(Digits)
                   THEN [m |-> sign * Pow10(Digits - 1), e |-> e + (k - Digits) + 1]
                   ELSE [m |-> sign * q2, e |-> e + (k - Digits)]))

\* n * 10^e rounded to Digits significant digits.
Round(n, e) ==
    Bind2(n, e, LAMBDA nn, ee :
        IF nn = 0 THEN FZero
        ELSE Bind(NumDigits(Abs(nn)), LAMBDA k :
                IF k <= Digits
                THEN [m |-> nn * Pow10(Digits - k), e |-> ee - (Digits - k)]
                ELSE RoundDown(Sgn(nn), Abs(nn), k, ee)))

\* An integer literal as a number.
Num(n) == Round(n, 0)

\* A decimal literal m * 10^e (1e-10 is Dec(1, -10)).
Dec(m, e) == Round(m, e)

FNeg(a) == Bind(a, LAMBDA x : [m |-> -x.m, e |-> x.e])

FAbs(a) == Bind(a, LAMBDA x : [m |-> Abs(x.m), e |-> x.e])

FAdd(a, b) ==
    Bind2(a, b, LAMBDA x, y :
        IF IsInf(x) THEN x
        ELSE IF IsInf(y) THEN y
        ELSE IF x.m = 0 THEN y
        ELSE IF y.m = 0 THEN x
        ELSE IF x.e - y.e > Digits + 1 THEN x
        ELSE IF y.e - x.e > Digits + 1 THEN y
        ELSE IF x.e >= y.e
             THEN Round(x.m * Pow10(x.e - y.e) + y.m, y.e)
             ELSE Round(y.m * Pow10(y.e - x.e) + x.m, x.e))

FSub(a, b) == FAdd(a, FNeg(b))

FMul(a, b) ==
    Bind2(a, b, LAMBDA x, y :
        IF IsInf(x) \/ IsInf(y) THEN [m |-> Sgn(x.m) * Sgn(y.m), e |-> Infinity.e]
        ELSE Round(x.m * y.m, x.e + y.e))

\* a / b for b # 0; the remainder is kept as a sticky digit so that the
\* quotient is rounded once.
FDiv(a, b) ==
    Bind2(a, b, LAMBDA x, y :
        IF x.m = 0 THEN FZero
        ELSE Bind2(Abs(x.m) * Pow10(Digits + 1), Abs(y.m), LAMBDA n, d :
                Round(Sgn(x.m) * Sgn(y.m)
                        * ((n \div d) * 10 + (IF n % d = 0 THEN 0 ELSE 1)),
                      x.e - y.e - Digits - 2)))

FLess(a, b) == FSub(a, b).m < 0

FGreater(a, b) == FLess(b, a)

\* The largest r with r * r <= n, by bisection on lo <= r < hi.
RECURSIVE ISqrtIn(_, _, _)
ISqrtIn(n, lo, hi) ==
    IF hi - lo <= 1 THEN lo
    ELSE Bind((lo + hi) \div 2, LAMBDA mid :
            IF mid * mid <= n THEN ISqrtIn(n, mid, hi) ELSE ISqrtIn(n, lo, mid))

\* Math.sqrt of a >= 0, correctly rounded: the significand is scaled to
\* 2*Digits-1 or 2*Digits digits with an even exponent, its integer root q
\* has Digits digits, and q + 1 is nearer exactly when n > q*q + q.
FSqrt(a) ==
    Bind(a, LAMBDA x :
        IF x.m = 0 \/ IsInf(x) THEN x
        ELSE Bind(IF (x.e - (Digits - 1)) % 2 = 0 THEN Digits - 1 ELSE Digits,
                  LAMBDA s :
                    Bind2(x.m * Pow10(s), ISqrtIn(x.m * Pow10(s), 0, Pow10(Digits) + 1),
                          LAMBDA n, q :
                            Round(IF n > q * q + q THEN q + 1 ELSE q,
                                  (x.e - s) \div 2))))

(***************************************************************************)
(* solve6x6: Gaussian elimination with partial pivoting.  Matrices are     *)
(* functions over 0..5 of rows over 0..5, as M[i][j] in the source.        *)
(***************************************************************************)
N6 == 6

Idx == 0 .. (N6 - 1)

\* The failure value of solve6x6.
Null == <<>>

\* The pivot threshold 1e-10.
PivotTol == Dec(1, -10)

\* Lines 321-324: the first row at or below i with the largest |M[k][i]|.
RECURSIVE MaxRowFrom(_, _, _, _)
MaxRowFrom(M, i, k, maxRow) ==
    IF k >= N6 THEN maxRow
    ELSE Bind(IF FGreater(FAbs(M[k][i]), FAbs(M[maxRow][i])) THEN k ELSE maxRow,
              LAMBDA r : MaxRowFrom(M, i, k + 1, r))

\* A pivot search that never leaves the diagonal.
MaxRowNoPivoting(M, i) == i

MaxRow(M, i) == MaxRowFrom(M, i, i + 1, i)

\* Lines 325-326: exchange entries i and r of a vector of rows or numbers.
Swap(V, i, r) ==
    Tab([k \in Idx |-> IF k = i THEN V[r] ELSE IF k = r THEN V[i] ELSE V[k]])

\* Line 328.
PivotTooSmall(p) == FLess(FAbs(p), PivotTol)

\* Lines 331-335: row k minus c = M[k][i] / M[i][i] times row i.
EliminateRow(M, B, i, k) ==
    Bind(FDiv(M[k][i], M[i][i]), LAMBDA c :
        [row |-> Tab([j \in Idx |-> IF j >= i
                                     THEN FSub(M[k][j], FMul(c, M[i][j]))
                                     ELSE M[k][j]]),
         b   |-> FSub(B[k], FMul(c, B[i]))])

\* Lines 330-336: every row k below i.
EliminateBelow(M, B, i) ==
    Bind(Tab([k \in Idx |-> IF k > i THEN EliminateRow(M, B, i, k)
                                      ELSE [row |-> M[k], b |-> B[k]]]),
         LAMBDA E : [M |-> Tab([k \in Idx |-> E[k].row]),
                     B |-> Tab([k \in Idx |-> E[k].b])])

\* Lines 320-337, one pass of the outer loop: pivot search, row exchange,
\* threshold test, elimination.  failed: the function returns null here.
ColumnStep(M, B, i) ==
    Bind3(M, B, MaxRow(M, i), LAMBDA M0, B0, r :
        Bind2(Swap(M0, i, r), Swap(B0, i, r), LAMBDA M1, B1 :
            IF PivotTooSmall(M1[i][i])
            THEN [failed |-> TRUE, M |-> M1, B |-> B1]
            ELSE Bind(EliminateBelow(M1, B1, i), LAMBDA E :
                    [failed |-> FALSE, M |-> E.M, B |-> E.B])))

\* Lines 343-345: x[i] -= M[i][j] * x[j] for j = i+1 .. 5, in that order.
RECURSIVE BackRow(_, _, _, _, _)
BackRow(M, x, i, j, acc) ==
    IF j >= N6 THEN acc
    ELSE Bind(FSub(acc, FMul(M[i][j], x[j])), LAMBDA a : BackRow(M, x, i, j + 1, a))

\* Lines 340-347: back substitution, i = 5 down to 0.
RECURSIVE BackSubstFrom(_, _, _, _)
BackSubstFrom(M, B, i, x) ==
    IF i < 0 THEN x
    ELSE Bind([x EXCEPT ![i] = FDiv(BackRow(M, x, i, i + 1, B[i]), M[i][i])],
              LAMBDA x1 : BackSubstFrom(M, B, i - 1, x1))

BackSubst(M, B) ==
    Bind2(M, B, LAMBDA M0, B0 :
        BackSubstFrom(M0, B0, N6 - 1, Tab([i \in Idx |-> FZero])))

\* Lines 310-316: the flat array A as rows.
Unflatten(A) ==
    Bind(A, LAMBDA A0 : Tab([i \in Idx |-> Tab([j \in Idx |-> A0[i * N6 + j]])]))

\* Lines 320-337: the passes i, i+1, ... of the forward elimination.
RECURSIVE ForwardFrom(_, _, _)
ForwardFrom(M, B, i) ==
    IF i >= N6 THEN [failed |-> FALSE, M |-> M, B |-> B]
    ELSE Bind(ColumnStep(M, B, i), LAMBDA s :
            IF s.failed THEN s ELSE ForwardFrom(s.M, s.B, i + 1))

\* solve6x6(A, b): Null, or the vector x.
solve6x6(A, b) ==
    Bind(ForwardFrom(Unflatten(A), b, 0), LAMBDA f :
        IF f.failed THEN Null ELSE BackSubst(f.M, f.B))

(***************************************************************************)
(* One call of solve6x6, a step of the forward elimination at a time.      *)
(***************************************************************************)
\* Entries of the argument matrices.
BlockVals == {0, 3, 7, 9, 21}

\* Where the non-identity entries of an argument matrix sit.
BlockPlaces == {<<0, 1>>, <<2, 5>>}

\* The identity with rows and columns p[1], p[2] carrying a, b / c, d.
BlockMatrix(p, a, b, c, d) ==
    Tab([k \in 0 .. (N6 * N6 - 1) |->
        LET i == k \div N6
            j == k % N6
        IN  IF i = p[1] /\ j = p[1] THEN Num(a)
            ELSE IF i = p[1] /\ j = p[2] THEN Num(b)
            ELSE IF i = p[2] /\ j = p[1] THEN Num(c)
            ELSE IF i = p[2] /\ j = p[2] THEN Num(d)
            ELSE IF i = j THEN Num(1) ELSE FZero])

SolveInputs ==
    {BlockMatrix(p, v[1], v[2], v[3], v[4]) :
        p \in BlockPlaces, v \in BlockVals \X BlockVals \X BlockVals \X BlockVals}

SolveRhs == {[i \in Idx |-> Num(i + 1)]}

SolveIdle ==
    /\ sA = <<>> /\ sb = <<>> /\ sM = <<>> /\ sB = <<>>
    /\ sCol = 0 /\ sRes = Null /\ sPc = "idle"

SolveInit ==
    /\ sA \in SolveInputs
    /\ sb \in SolveRhs
    /\ sM = <<>> /\ sB = <<>> /\ sCol = 0 /\ sRes = Null
    /\ sPc = "call"

\* Lines 308-317: copy the arguments.
Solve6x6Begin ==
    /\ sPc = "call"
    /\ sM' = Unflatten(sA)
    /\ sB' = sb
    /\ sCol' = 0
    /\ sPc' = "elim"
    /\ UNCHANGED <<sA, sb, sRes, notSolve>>

\* Lines 320-337: one pass of the forward elimination.
Solve6x6Column ==
    /\ sPc = "elim"
    /\ \E s \in {ColumnStep(sM, sB, sCol)} :
           /\ sM' = s.M
           /\ sB' = s.B
           /\ IF s.failed
              THEN /\ sRes' = Null
                   /\ sPc' = "done"
                   /\ sCol' = sCol
              ELSE /\ sRes' = sRes
                   /\ sCol' = sCol + 1
                   /\ sPc' = IF sCol + 1 < N6 THEN "elim" ELSE "back"
    /\ UNCHANGED <<sA, sb, notSolve>>

\* Lines 339-349: back substitution and return.
Solve6x6Back ==
    /\ sPc = "back"
    /\ sRes' = BackSubst(sM, sB)
    /\ sPc' = "done"
    /\ UNCHANGED <<sA, sb, sM, sB, sCol, notSolve>>


(***************************************************************************)
(* rotationMatrixToEulerAngles.  Math.atan2 is not computed: atan2(y, x)   *)
(* is the term [y, x], and its conversion to degrees the term [deg].  A    *)
(* number (the roll 0 of the gimbal-lock branch) is converted numerically. *)
(***************************************************************************)
Atan2(y, x) == [y |-> y, x |-> x]

Pi == Dec(314159265, -8)

\* Lines 73-75: (angle * 180) / Math.PI.
ToDegrees(a) ==
    Bind(a, LAMBDA r :
        IF "m" \in DOMAIN r THEN FDiv(FMul(r, Num(180)), Pi) ELSE [deg |-> r])

\* A branch test that never takes the gimbal-lock branch.
NonDegenerateAlways(sy) == TRUE

\* Line 62.
NonDegenerate(sy) == FGreater(sy, Dec(1, -6))

\* Lines 58-77.
rotationMatrixToEulerAngles(R) ==
    Bind(FSqrt(FAdd(FMul(R[0], R[0]), FMul(R[3], R[3]))), LAMBDA sy :
        IF NonDegenerate(sy)
        THEN [pitch |-> ToDegrees(Atan2(R[7], R[8])),
              yaw   |-> ToDegrees(Atan2(FNeg(R[6]), sy)),
              roll  |-> ToDegrees(Atan2(R[3], R[0]))]
        ELSE [pitch |-> ToDegrees(Atan2(FNeg(R[5]), R[4])),
              yaw   |-> ToDegrees(Atan2(FNeg(R[6]), sy)),
              roll  |-> ToDegrees(FZero)])

\* Entries of the argument matrices: first column, top two rows ...
EulerSmall == {Dec(0, 0), Dec(6, -7), Dec(8, -7), Dec(1, -6), Dec(1, 0)}

\* ... and the other entries read.
EulerUnit == {Dec(0, 0), Dec(1, 0), Dec(-1, 0)}

EulerInputs ==
    {[k \in 0 .. 8 |->
        IF k = 0 THEN a[1] ELSE IF k = 3 THEN a[2] ELSE IF k = 6 THEN a[3]
        ELSE IF k = 4 THEN b[1] ELSE IF k = 5 THEN b[2]
        ELSE IF k = 7 THEN b[3] ELSE IF k = 8 THEN b[4] ELSE FZero] :
      a \in EulerSmall \X EulerSmall \X EulerUnit,
      b \in EulerUnit \X EulerUnit \X EulerUnit \X EulerUnit}

EulerIdle == eR = <<>> /\ eOut = <<>> /\ ePc = "idle"

EulerInit == eR \in EulerInputs /\ eOut = <<>> /\ ePc = "call"

EulerCall ==
    /\ ePc = "call"
    /\ eOut' = rotationMatrixToEulerAngles(eR)
    /\ ePc' = "done"
    /\ UNCHANGED <<eR, notEuler>>


(***************************************************************************)
(* refinePose: the Levenberg-Marquardt loop.                               *)
(*                                                                         *)
(* rodrigues and computeJacobian (sines, cosines, a projection) are not    *)
(* computed.  Within one call the k-th iterate is a function of the call's *)
(* arguments, so what computeJacobian returns in iteration k is a function *)
(* of the arguments and k; the arguments of a call are modelled by that    *)
(* function.  A scene is [init, prefix, tail]: init is the pose            *)
(* initializePose returns, and iteration k evaluates to the residuals and  *)
(* Jacobian of kind prefix[k+1], or of kind tail past the prefix.          *)
(* Everything else of the loop is computed as the code computes it.        *)
(***************************************************************************)
MaxIter == 30

\* numPoints: objectPoints.length / 3 for the six landmarks.
NumPoints == 6

Kinds == {"near", "closer", "steep", "tiny", "flat", "descent"}

\* The residual vector of a kind: zero but for entries 0 and 3.
KindResiduals(kind, k) ==
    LET r0 == CASE kind = "near"    -> Num(3)
                [] kind = "closer"  -> Num(2)
                [] kind = "steep"   -> Num(40)
                [] kind = "tiny"    -> Dec(5, -2)
                [] kind = "flat"    -> Num(3)
                [] kind = "descent" -> Num(MaxIter + 5 - k)
        r3 == IF kind = "steep" THEN Num(30) ELSE FZero
    IN  Tab([i \in 0 .. (2 * NumPoints - 1) |->
            IF i = 0 THEN r0 ELSE IF i = 3 THEN r3 ELSE FZero])

\* The Jacobian of a kind: row i has its one entry in column i % 6.  In
\* kind "flat" the column of tz vanishes (a face far from the camera).
KindJacobian(kind) ==
    Tab([q \in 0 .. (2 * NumPoints * 6 - 1) |->
        LET i == q \div 6
            j == q % 6
        IN  IF j # i % 6 THEN FZero
            ELSE IF kind = "flat" /\ j = 5 THEN Dec(1, -6)
            ELSE Num(10)])

\* Lines 244-304, as a function of the call's arguments and the iteration.
computeJacobian(sc, k) ==
    LET kind == IF k < Len(sc.prefix) THEN sc.prefix[k + 1] ELSE sc.tail
    IN  [residuals |-> KindResiduals(kind, k), J |-> KindJacobian(kind)]

\* Lines 131-180: the pose the arguments determine.
initializePose(sc) == sc.init

\* residuals.reduce((sum, r) => sum + r * r, 0), line 192.
RECURSIVE SumSquaresFrom(_, _, _, _)
SumSquaresFrom(v, i, n, acc) ==
    IF i >= n THEN acc
    ELSE Bind(FAdd(acc, FMul(v[i], v[i])), LAMBDA a : SumSquaresFrom(v, i + 1, n, a))

SumSquares(v, n) == Bind(v, LAMBDA w : SumSquaresFrom(w, 0, n, FZero))

\* A convergence test without Math.abs.
ConvergedNoAbs(prev, error) ==
    \/ FLess(FSub(prev, error), Dec(1, -8))
    \/ FLess(error, Dec(1, -2))

\* Lines 195-196.
Converged(prev, error) ==
    \/ FLess(FAbs(FSub(prev, error)), Dec(1, -8))
    \/ FLess(error, Dec(1, -2))

\* Lines 202-209: sum over the rows i of J[i*6+j] * w(i), in row order.
RECURSIVE ColumnSum(_, _, _, _, _, _)
ColumnSum(J, j, w, i, n, acc) ==
    IF i >= n THEN acc
    ELSE Bind(FAdd(acc, FMul(J[i * 6 + j], w[i])),
              LAMBDA a : ColumnSum(J, j, w, i + 1, n, a))

NormalJtJ(J, n) ==
    Bind(J, LAMBDA J0 :
        Tab([q \in 0 .. 35 |->
            ColumnSum(J0, q \div 6, [i \in 0 .. (2 * n - 1) |-> J0[i * 6 + (q % 6)]],
                      0, 2 * n, FZero)]))

NormalJtr(J, residuals, n) ==
    Bind2(J, residuals, LAMBDA J0, r0 :
        Tab([j \in 0 .. 5 |-> ColumnSum(J0, j, r0, 0, 2 * n, FZero)]))

\* Lines 212-214: JtJ[i*6+i] *= (1 + lambda).
Damp(JtJ, lam) ==
    Bind2(JtJ, FAdd(Num(1), lam), LAMBDA A, f :
        Tab([q \in 0 .. 35 |-> IF q \div 6 = q % 6 THEN FMul(A[q], f) ELSE A[q]]))

\* Lines 221-225: a step longer than 1.0 is scaled to length 0.5.
ClampStep(delta) ==
    Bind2(delta, FSqrt(SumSquares(delta, 6)), LAMBDA d, deltaSize :
        IF FGreater(deltaSize, Num(1))
        THEN Bind(FDiv(Dec(5, -1), deltaSize),
                  LAMBDA f : Tab([i \in 0 .. 5 |-> FMul(d[i], f)]))
        ELSE d)

\* An update that keeps the iterate when the error did not improve.
UpdatePoseWithRollback(rv, tv, delta, prev, error) ==
    IF FLess(error, prev)
    THEN [rvec |-> Tab([i \in 0 .. 2 |-> FSub(rv[i], delta[i])]),
          tvec |-> Tab([i \in 0 .. 2 |-> FSub(tv[i], delta[i + 3])])]
    ELSE [rvec |-> rv, tvec |-> tv]

\* Lines 228-229.  (prev and error are not read: the update is unconditional.)
UpdatePose(rv, tv, delta, prev, error) ==
    [rvec |-> Tab([i \in 0 .. 2 |-> FSub(rv[i], delta[i])]),
     tvec |-> Tab([i \in 0 .. 2 |-> FSub(tv[i], delta[i + 3])])]

\* Lines 232-237.
AdjustDamping(lam, prev, error) ==
    IF FLess(error, prev)
    THEN [lambda |-> FMul(lam, Dec(1, -1)), prevError |-> error]
    ELSE [lambda |-> FMul(lam, Num(10)), prevError |-> prev]

\* A loop that runs once more.
LoopConditionOffByOne(i) == i <= MaxIter

\* Line 188: iter < maxIter.
LoopCondition(i) == i < MaxIter

\* A return of the pose the call was given.
ReturnValueInitial(pose, rv, tv) == pose

\* Line 240: return {rvec, tvec}.
ReturnValue(pose, rv, tv) == [rvec |-> rv, tvec |-> tv]

\* Lines 199-217: the step the normal equations give, or Null.
SolveStep(ev, lam) ==
    solve6x6(Damp(NormalJtJ(ev.J, NumPoints), lam),
             NormalJtr(ev.J, ev.residuals, NumPoints))

\* A start from the pose the previous call returned.
StartPoseWarm(sc, log) ==
    IF log = <<>> THEN initializePose(sc) ELSE log[Len(log)].result

\* Lines 97, 100 and 184: each call starts from initializePose of its own
\* arguments; nothing of an earlier call (log) is read.
StartPose(sc, log) == initializePose(sc)

InitPoses ==
    {[rvec |-> [i \in 0 .. 2 |-> Dec(i + 1, -1)], tvec |-> [i \in 0 .. 2 |-> Num(i + 1)]],
     [rvec |-> [i \in 0 .. 2 |-> FZero], tvec |-> [i \in 0 .. 2 |-> Num(5)]]}

\* Longest prefix of a scene.
PrefixLen == 2

Prefixes == UNION {[1 .. n -> Kinds] : n \in 0 .. PrefixLen}

Scenes == [init : InitPoses, prefix : Prefixes, tail : Kinds]

\* The error of the iterate evaluated in iteration k of the running call.
ErrorAt(sc, k) == SumSquares(computeJacobian(sc, k).residuals, 2 * NumPoints)

LMIdle ==
    /\ scene = <<>> /\ rvec = <<>> /\ tvec = <<>>
    /\ lambda = FZero /\ prevError = FZero /\ iter = 0
    /\ lmPc = "idle" /\ lmExit = "" /\ evals = <<>> /\ lmRes = <<>>
    /\ callLog = <<>>

\* solvePnP is called with some arguments.
LMInit ==
    /\ scene \in Scenes
    /\ rvec = <<>> /\ tvec = <<>>
    /\ lambda = FZero /\ prevError = FZero /\ iter = 0
    /\ lmPc = "call" /\ lmExit = "" /\ evals = <<>> /\ lmRes = <<>>
    /\ callLog = <<[args |-> scene, result |-> <<>>]>>

\* Scenes of the repeated calls: one that converges at once, one whose
\* second iteration finds the system singular, one that uses every iteration.
CallScenes ==
    {sc \in Scenes :
        \/ sc.prefix = <<>> /\ sc.tail = "tiny"
        \/ sc.prefix = <<"closer">> /\ sc.tail = "flat" /\ sc.init.rvec[0] = FZero
        \/ sc.prefix = <<"closer">> /\ sc.tail = "near" /\ sc.init.rvec[0] # FZero}

\* Calls of solvePnP in one run.
MaxCalls == 3

\* solvePnP(objectPoints, imagePoints, cameraMatrix) is called (line 87).
CallSolvePnP ==
    /\ lmPc \in {"idle", "done"}
    /\ Len(callLog) < MaxCalls
    /\ \E sc \in CallScenes :
          /\ scene' = sc
          /\ callLog' = Append(callLog, [args |-> sc, result |-> <<>>])
    /\ lmPc' = "call"
    /\ lmExit' = ""
    /\ evals' = <<>>
    /\ lmRes' = <<>>
    /\ UNCHANGED <<rvec, tvec, lambda, prevError, iter, notLM>>

\* Lines 97-100 and 184-186: the locals of refinePose.
RefineBegin ==
    /\ lmPc = "call"
    /\ \E pose \in {StartPose(scene, SubSeq(callLog, 1, Len(callLog) - 1))} :
           rvec' = pose.rvec /\ tvec' = pose.tvec
    /\ lambda' = Dec(1, -3)
    /\ prevError' = Infinity
    /\ iter' = 0
    /\ lmPc' = "loop"
    /\ UNCHANGED <<scene, lmExit, evals, lmRes, callLog, notLM>>

\* Lines 188-238: one iteration of the loop.
RefineIterate ==
    /\ lmPc = "loop"
    /\ LoopCondition(iter)
    /\ \E ev \in {computeJacobian(scene, iter)} :
       \E error \in {SumSquares(ev.residuals, 2 * NumPoints)} :
          /\ evals' = Append(evals, [rvec |-> rvec, tvec |-> tvec, error |-> error])
          /\ IF Converged(prevError, error)
             THEN /\ lmPc' = "exit" /\ lmExit' = "converged"
                  /\ UNCHANGED <<rvec, tvec, lambda, prevError, iter>>
             ELSE \E solved \in {SolveStep(ev, lambda)} :
                    IF solved = Null
                    THEN /\ lmPc' = "exit" /\ lmExit' = "solver"
                         /\ UNCHANGED <<rvec, tvec, lambda, prevError, iter>>
                    ELSE \E delta \in {ClampStep(solved)} :
                         \E pose \in {UpdatePose(rvec, tvec, delta, prevError, error)} :
                         \E damp \in {AdjustDamping(lambda, prevError, error)} :
                            /\ rvec' = pose.rvec
                            /\ tvec' = pose.tvec
                            /\ lambda' = damp.lambda
                            /\ prevError' = damp.prevError
                            /\ iter' = iter + 1
                            /\ UNCHANGED <<lmPc, lmExit>>
    /\ UNCHANGED <<scene, lmRes, callLog, notLM>>

\* Line 188, iter < maxIter false: the loop ends.
RefineExhausted ==
    /\ lmPc = "loop"
    /\ ~LoopCondition(iter)
    /\ lmPc' = "exit"
    /\ lmExit' = "maxIter"
    /\ UNCHANGED <<scene, rvec, tvec, lambda, prevError, iter, evals, lmRes, callLog, notLM>>

\* Lines 240 and 102: the pose is returned.
RefineReturn ==
    /\ lmPc = "exit"
    /\ lmRes' = ReturnValue(initializePose(scene), rvec, tvec)
    /\ callLog' = [callLog EXCEPT ![Len(callLog)].result = lmRes']
    /\ lmPc' = "done"
    /\ UNCHANGED <<scene, rvec, tvec, lambda, prevError, iter, lmExit, evals, notLM>>



(***************************************************************************)
(* ProctorMainWindow: init() and the frame loop detectFace, and            *)
(* computeHeadPose as detectFace calls it.  What solvePnP, rodrigues and   *)
(* rotationMatrixToEulerAngles compute from the correspondences is kept as *)
(* a term over them.                                                       *)
(***************************************************************************)
FACE_NOT_FOUND_MESSAGE == "Face Not Found"

KEY_LANDMARK_INDICES == <<1, 9, 57, 130, 287, 359>>

\* The landmarks the detector returns for a face, indexed from 0; each is
\* tagged with its index, the anatomical landmark it is.
LandmarkIndices == 0 .. 477

\* Faces the detector can report: the normalized position of landmark i.
FaceVariants == {1, 2}

FaceLandmarks(v) ==
    [i \in LandmarkIndices |->
        [landmark |-> i, x |-> Dec(25 * v + (i % 7), -2), y |-> Dec(50 - (i % 5), -2)]]

\* Lines 8-15: the rows of facialCoordinationInRealWorld, each with the
\* landmark its comment names.
facialCoordinationInRealWorld ==
    << [X |-> 285, Y |-> 528, Z |-> 200, landmark |-> 1],
       [X |-> 285, Y |-> 371, Z |-> 152, landmark |-> 9],
       [X |-> 197, Y |-> 574, Z |-> 128, landmark |-> 130],
       [X |-> 173, Y |-> 425, Z |-> 108, landmark |-> 57],
       [X |-> 360, Y |-> 574, Z |-> 128, landmark |-> 287],
       [X |-> 391, Y |-> 425, Z |-> 108, landmark |-> 359] >>

\* Line 78: KEY_LANDMARK_INDICES.map(key_index => faceLandmarks[0][key_index]).
KeyLandmarks(face) ==
    [i \in 1 .. Len(KEY_LANDMARK_INDICES) |-> face[KEY_LANDMARK_INDICES[i]]]

\* Lines 3-56: the i-th image point (lines 26-31, in pixels) goes to solvePnP
\* with the i-th row of the model (lines 41-45); the result is the term
\* rotationMatrixToEulerAngles(rodrigues(solvePnP(...).rvec)).
computeHeadPose(key_landmarks, imageWidth, imageHeight) ==
    LET pairs == [i \in 1 .. Len(key_landmarks) |->
                    [object |-> facialCoordinationInRealWorld[i],
                     u |-> FMul(key_landmarks[i].x, Num(imageWidth)),
                     v |-> FMul(key_landmarks[i].y, Num(imageHeight)),
                     imageLandmark |-> key_landmarks[i].landmark]]
        focalLength == imageWidth
    IN  [rotation |-> [pnp |-> pairs,
                       fx |-> focalLength, fy |-> focalLength,
                       cx |-> imageWidth \div 2, cy |-> imageHeight \div 2]]

\* A value of the state faceAngles: a number, or a text.
Number(n) == [number |-> n]

Text(t) == [text |-> t]

\* Lines 80-84: String(Math.trunc(a * 100) + shift).padEnd(14, " ").
Shown(angle, of, shift) == [trunc100 |-> angle, of |-> of, plus |-> shift]

DisplayOf(result) ==
    [pitch |-> Shown("pitch", result.rotation, 0),
     yaw   |-> Shown("yaw", result.rotation, -10),
     roll  |-> Shown("roll", result.rotation, 0)]

\* An else branch that sets the yaw alone.
NotFoundYawOnly(old) ==
    [pitch |-> old.pitch, yaw |-> Text(FACE_NOT_FOUND_MESSAGE), roll |-> old.roll]

\* Lines 86-90.
NotFoundAngles(old) ==
    [pitch |-> Text(FACE_NOT_FOUND_MESSAGE),
     yaw   |-> Text(FACE_NOT_FOUND_MESSAGE),
     roll  |-> Text(FACE_NOT_FOUND_MESSAGE)]

\* A loop that asks for the next frame only when it processed this one.
NextFrameRequestsInsideIf(branch) == IF branch = "skipped" THEN 0 ELSE 1

\* Line 93: requestAnimationFrame(detectFace), once, on every path.
NextFrameRequests(branch) == 1

\* Animation frames of one run.
MaxFrames == 3

FrameIdle ==
    /\ initPc = "idle" /\ landmarker = FALSE /\ handlerSet = FALSE
    /\ loaded = FALSE /\ playing = FALSE /\ rafPending = 0
    /\ awaiting = <<>> /\ frameNo = 0
    /\ faceAngles = <<>> /\ coreCalls = <<>> /\ frameLog = <<>>

\* Lines 20-26 and 61: the component is mounted and init() has been called.
FrameInit ==
    /\ initPc = "wasm" /\ landmarker = FALSE /\ handlerSet = FALSE
    /\ loaded = FALSE /\ playing \in BOOLEAN /\ rafPending = 0
    /\ awaiting = <<>> /\ frameNo = 0
    /\ faceAngles = [pitch |-> Number(0), yaw |-> Number(0), roll |-> Number(0)]
    /\ coreCalls = <<>> /\ frameLog = <<>>

\* Lines 31-33: the wasm files are loaded.
InitLoadWasm ==
    /\ initPc = "wasm"
    /\ initPc' = "model"
    /\ UNCHANGED <<landmarker, handlerSet, loaded, playing, rafPending, awaiting,
                   frameNo, faceAngles, coreCalls, frameLog, notFrame>>

\* Lines 36-44: the landmarker is created and stored.
InitCreateLandmarker ==
    /\ initPc = "model"
    /\ landmarker' = TRUE
    /\ initPc' = "camera"
    /\ UNCHANGED <<handlerSet, loaded, playing, rafPending, awaiting,
                   frameNo, faceAngles, coreCalls, frameLog, notFrame>>

\* Lines 47-58: the camera stream is attached with its onloadeddata handler.
InitAttachCamera ==
    /\ initPc = "camera"
    /\ handlerSet' = TRUE
    /\ initPc' = "done"
    /\ UNCHANGED <<landmarker, loaded, playing, rafPending, awaiting,
                   frameNo, faceAngles, coreCalls, frameLog, notFrame>>

\* One of the awaited promises of init() rejects; init() ends there.
InitRejected ==
    /\ initPc \in {"wasm", "model", "camera"}
    /\ initPc' = "rejected"
    /\ UNCHANGED <<landmarker, handlerSet, loaded, playing, rafPending, awaiting,
                   frameNo, faceAngles, coreCalls, frameLog, notFrame>>

\* Lines 55-57: the stream's loadeddata event.
LoadedData ==
    /\ handlerSet /\ ~loaded
    /\ awaiting = <<>>
    /\ loaded' = TRUE
    /\ rafPending' = rafPending + 1
    /\ UNCHANGED <<initPc, landmarker, handlerSet, playing, awaiting,
                   frameNo, faceAngles, coreCalls, frameLog, notFrame>>

\* The video is paused or ends, or plays again.
VideoToggle ==
    /\ awaiting = <<>>
    /\ playing' = ~playing
    /\ UNCHANGED <<initPc, landmarker, handlerSet, loaded, rafPending, awaiting,
                   frameNo, faceAngles, coreCalls, frameLog, notFrame>>

\* Lines 65-71 false, then line 93: the frame is not processed.
DetectSkip ==
    /\ rafPending > 0 /\ awaiting = <<>> /\ frameNo < MaxFrames
    /\ ~(landmarker /\ playing)
    /\ frameNo' = frameNo + 1
    /\ rafPending' = rafPending - 1 + NextFrameRequests("skipped")
    /\ frameLog' = Append(frameLog,
          [frame |-> frameNo + 1, branch |-> "skipped", face |-> 0,
           shown |-> <<>>])
    /\ UNCHANGED <<initPc, landmarker, handlerSet, loaded, playing, awaiting,
                   faceAngles, coreCalls, notFrame>>

\* Lines 72-77 with no face, 85-91, 93.
DetectNoFace ==
    /\ rafPending > 0 /\ awaiting = <<>> /\ frameNo < MaxFrames
    /\ landmarker /\ playing
    /\ frameNo' = frameNo + 1
    /\ faceAngles' = NotFoundAngles(faceAngles)
    /\ rafPending' = rafPending - 1 + NextFrameRequests("noFace")
    /\ frameLog' = Append(frameLog,
          [frame |-> frameNo + 1, branch |-> "noFace", face |-> 0,
           shown |-> faceAngles'])
    /\ UNCHANGED <<initPc, landmarker, handlerSet, loaded, playing, awaiting,
                   coreCalls, notFrame>>

\* Lines 72-79 with a face: computeHeadPose is called and awaited.
DetectFace ==
    /\ rafPending > 0 /\ awaiting = <<>> /\ frameNo < MaxFrames
    /\ landmarker /\ playing
    /\ \E v \in FaceVariants :
          \E key_landmarks \in {KeyLandmarks(FaceLandmarks(v))} :
          \E result \in {computeHeadPose(key_landmarks, 640, 480)} :
              /\ coreCalls' = Append(coreCalls,
                     [frame |-> frameNo + 1, landmarks |-> key_landmarks,
                      result |-> result])
              /\ awaiting' = Append(awaiting,
                     [frame |-> frameNo + 1, face |-> v, result |-> result])
    /\ frameNo' = frameNo + 1
    /\ rafPending' = rafPending - 1
    /\ UNCHANGED <<initPc, landmarker, handlerSet, loaded, playing,
                   faceAngles, frameLog, notFrame>>

\* Lines 79-84, 93: the await resumes; the angles are set, the next frame
\* is requested.
DetectResume ==
    /\ awaiting # <<>>
    /\ \E inv \in {Head(awaiting)} :
           /\ faceAngles' = DisplayOf(inv.result)
           /\ frameLog' = Append(frameLog,
                 [frame |-> inv.frame, branch |-> "face", face |-> inv.face,
                  shown |-> faceAngles'])
    /\ awaiting' = Tail(awaiting)
    /\ rafPending' = rafPending + NextFrameRequests("face")
    /\ UNCHANGED <<initPc, landmarker, handlerSet, loaded, playing, frameNo,
                   coreCalls, notFrame>>


(***************************************************************************)
(* Specifications.                                                         *)
(***************************************************************************)
SolveSpecInit == SolveInit /\ EulerIdle /\ LMIdle /\ FrameIdle
SolveSpecNext == Solve6x6Begin \/ Solve6x6Column \/ Solve6x6Back
SpecSolve == SolveSpecInit /\ [][SolveSpecNext]_vars

EulerSpecInit == EulerInit /\ SolveIdle /\ LMIdle /\ FrameIdle
EulerSpecNext == EulerCall
SpecEuler == EulerSpecInit /\ [][EulerSpecNext]_vars

\* One call of solvePnP, over all scenes.
LMSpecInit == LMInit /\ SolveIdle /\ EulerIdle /\ FrameIdle
LMSpecNext == RefineBegin \/ RefineIterate \/ RefineExhausted \/ RefineReturn
SpecLM == LMSpecInit /\ [][LMSpecNext]_vars

\* Calls of solvePnP one after the other.
CallsSpecInit == LMIdle /\ SolveIdle /\ EulerIdle /\ FrameIdle
CallsSpecNext == CallSolvePnP \/ LMSpecNext
SpecCalls == CallsSpecInit /\ [][CallsSpecNext]_vars

\* The component from its mounting on.
FrameSpecInit == FrameInit /\ SolveIdle /\ EulerIdle /\ LMIdle
FrameSpecNext ==
    \/ InitLoadWasm \/ InitCreateLandmarker \/ InitAttachCamera \/ InitRejected
    \/ LoadedData \/ VideoToggle
    \/ DetectSkip \/ DetectNoFace \/ DetectFace \/ DetectResume
SpecFrame == FrameSpecInit /\ [][FrameSpecNext]_vars


(***************************************************************************)
(* Properties.                                                             *)
(***************************************************************************)
Last(s) == s[Len(s)]

\* The pairs handed to solvePnP by the k-th call of computeHeadPose.
PairsOf(k) == coreCalls[k].result.rotation.pnp

\* C1: position by position, the image point and the object point handed
\* to solvePnP are the same anatomical landmark, on every frame.
C1_LandmarksAligned ==
    \A k \in 1 .. Len(coreCalls) :
        \A i \in 1 .. Len(PairsOf(k)) :
            PairsOf(k)[i].imageLandmark = PairsOf(k)[i].object.landmark

\* The pose the failing iteration evaluated.
CurrentIterate == [rvec |-> Last(evals).rvec, tvec |-> Last(evals).tvec]

\* C2, as amended: when solve6x6 fails the loop stops in that iteration
\* with no update applied, and refinePose returns the parameters that
\* iteration evaluated (the current ones).
C2_SolverFailureReturnsCurrent ==
    (lmExit = "solver") =>
        /\ lmPc \in {"exit", "done"}
        /\ iter = Len(evals) - 1
        /\ rvec = CurrentIterate.rvec /\ tvec = CurrentIterate.tvec
        /\ (lmPc = "done" => lmRes = CurrentIterate)

\* C2 witness: the solver fails after an update has been applied.
C2_Witness ==
    /\ lmPc = "done" /\ lmExit = "solver" /\ Len(evals) > 1
    /\ lmRes # initializePose(scene)

\* C2, as stated: after a solver failure no iterate evaluated earlier in
\* the call has a strictly lower error than the returned pose.
C2_ReturnsBestSoFar ==
    (lmPc = "done" /\ lmExit = "solver") =>
        /\ lmRes = CurrentIterate
        /\ \A k \in 1 .. Len(evals) : ~FLess(evals[k].error, Last(evals).error)

IsPose(p) ==
    /\ DOMAIN p = {"rvec", "tvec"}
    /\ DOMAIN p.rvec = 0 .. 2 /\ DOMAIN p.tvec = 0 .. 2
    /\ \A i \in 0 .. 2 : DOMAIN p.rvec[i] = {"m", "e"} /\ DOMAIN p.tvec[i] = {"m", "e"}

C3_Bounded ==
    /\ iter <= MaxIter
    /\ Len(evals) <= MaxIter
    /\ lmExit \in {"", "converged", "solver", "maxIter"}
    /\ (lmPc = "loop" => iter = Len(evals))
    /\ (lmPc = "exit" => lmExit # "")
    /\ (lmPc = "done" => lmExit # "" /\ IsPose(lmRes))

\* Steps the call can still take.
C3_Measure ==
    CASE lmPc = "call" -> MaxIter + 3
      [] lmPc = "loop" -> MaxIter - iter + 2
      [] lmPc = "exit" -> 1
      [] OTHER         -> 0

\* The call can take a step: a loop iteration has no guard but line 188.
C3_CanStep ==
    \/ ENABLED RefineBegin
    \/ lmPc = "loop" /\ LoopCondition(iter)
    \/ ENABLED RefineExhausted
    \/ ENABLED RefineReturn

\* C3: refinePose runs at most 30 iterations, each ending by a convergence
\* break, a solver break or an update; the call can always go on until it
\* has returned, every step brings the return nearer, and what it returns
\* is on every path a pose {rvec, tvec}.
C3_TerminatesWithPose ==
    /\ []C3_Bounded
    /\ [](lmPc # "done" => C3_CanStep)
    /\ [][C3_Measure' < C3_Measure]_vars

\* C3 witness: a call that used all 30 iterations and returned.
C3_Witness ==
    lmPc = "done" /\ lmExit = "maxIter" /\ Len(evals) = MaxIter /\ IsPose(lmRes)

\* C4: a call starts from initializePose of its own arguments with
\* lambda = 0.001 and prevError = Infinity, calls with equal arguments
\* return equal results whatever ran before or between, and the arguments
\* are as they were passed.
C4_Stateless ==
    /\ (lmPc = "loop" /\ evals = <<>>) =>
            /\ rvec = scene.init.rvec /\ tvec = scene.init.tvec
            /\ lambda = Dec(1, -3) /\ prevError = Infinity /\ iter = 0
    /\ \A i, j \in 1 .. Len(callLog) :
            (/\ callLog[i].args = callLog[j].args
             /\ callLog[i].result # <<>> /\ callLog[j].result # <<>>)
                => callLog[i].result = callLog[j].result
    /\ (callLog # <<>> => scene = Last(callLog).args)

\* C4 witness: two finished calls with equal arguments, a call with other
\* arguments and another result between them.
C4_Witness ==
    /\ Len(callLog) = 3 /\ lmPc = "done"
    /\ callLog[1].args = callLog[3].args
    /\ callLog[2].args # callLog[1].args
    /\ callLog[2].result # callLog[1].result
    /\ callLog[3].result # callLog[3].args.init

\* The calls of computeHeadPose made on frame f.
CallsOn(f) == {k \in 1 .. Len(coreCalls) : coreCalls[k].frame = f}

\* C5: computeHeadPose is called on a frame only if the detector returned
\* a face for it; a processed frame without a face makes no call and shows
\* "Face Not Found" three times; a processed frame with a face shows its
\* own result.
C5_CoreOnlyOnFace ==
    /\ \A k \in 1 .. Len(coreCalls) :
            \/ \E a \in 1 .. Len(awaiting) :
                   /\ awaiting[a].frame = coreCalls[k].frame
                   /\ coreCalls[k].landmarks = KeyLandmarks(FaceLandmarks(awaiting[a].face))
            \/ \E n \in 1 .. Len(frameLog) :
                   /\ frameLog[n].frame = coreCalls[k].frame
                   /\ frameLog[n].branch = "face"
                   /\ coreCalls[k].landmarks = KeyLandmarks(FaceLandmarks(frameLog[n].face))
    /\ \A n \in 1 .. Len(frameLog) :
            /\ frameLog[n].branch = "noFace" =>
                   /\ CallsOn(frameLog[n].frame) = {}
                   /\ frameLog[n].shown.pitch = Text("Face Not Found")
                   /\ frameLog[n].shown.yaw = Text("Face Not Found")
                   /\ frameLog[n].shown.roll = Text("Face Not Found")
            /\ frameLog[n].branch = "skipped" => CallsOn(frameLog[n].frame) = {}
            /\ frameLog[n].branch = "face" =>
                   /\ Cardinality(CallsOn(frameLog[n].frame)) = 1
                   /\ \A k \in CallsOn(frameLog[n].frame) :
                        \A a \in {"pitch", "yaw", "roll"} :
                          /\ DOMAIN frameLog[n].shown[a] = {"trunc100", "of", "plus"}
                          /\ frameLog[n].shown[a].trunc100 = a
                          /\ frameLog[n].shown[a].of = coreCalls[k].result.rotation
            /\ (n = Len(frameLog) /\ frameLog[n].branch # "skipped") =>
                   faceAngles = frameLog[n].shown

\* C5 witness: a frame with a face was shown, then one without a face.
C5_Witness ==
    /\ Len(frameLog) >= 2
    /\ frameLog[Len(frameLog) - 1].branch = "face"
    /\ Last(frameLog).branch = "noFace"
    /\ faceAngles.yaw = Text("Face Not Found")

\* The integer a number stands for (the entries of SolveInputs are integers).
IntOf(f) == IF f.e >= 0 THEN f.m * Pow10(f.e) ELSE f.m \div Pow10(-f.e)

Without(q, j) == SubSeq(q, 1, j - 1) \o SubSeq(q, j + 1, Len(q))

\* The determinant of the rows and columns listed, in exact integer
\* arithmetic, by expansion along the first row listed.
RECURSIVE DetOn(_, _, _)
RECURSIVE DetRow(_, _, _, _)
DetRow(A, rows, cols, j) ==
    IF j > Len(cols) THEN 0
    ELSE (IF A[Head(rows) * N6 + cols[j]].m = 0 THEN 0
          ELSE (IF j % 2 = 1 THEN 1 ELSE -1)
                 * IntOf(A[Head(rows) * N6 + cols[j]])
                 * DetOn(A, Tail(rows), Without(cols, j)))
         + DetRow(A, rows, cols, j + 1)

DetOn(A, rows, cols) == IF rows = <<>> THEN 1 ELSE DetRow(A, rows, cols, 1)

Singular(A) == DetOn(A, <<0, 1, 2, 3, 4, 5>>, <<0, 1, 2, 3, 4, 5>>) = 0

ZeroRow(A) == \E i \in Idx : \A j \in Idx : A[i * N6 + j].m = 0

ZeroColumn(A) == \E j \in Idx : \A i \in Idx : A[i * N6 + j].m = 0

BelowTol(x) == FLess(FAbs(x), Dec(1, -10))

Rrc(row, col) == eR[row * 3 + col]

C7_sy == FSqrt(FAdd(FMul(Rrc(0, 0), Rrc(0, 0)), FMul(Rrc(1, 0), Rrc(1, 0))))

\* C7: with sy = sqrt(R00^2 + R10^2) not greater than 1e-6 the roll is
\* exactly 0 and the pitch comes from atan2(-R12, R11); with sy > 1e-6 the
\* pitch comes from atan2(R21, R22) and the roll from atan2(R10, R00);
\* the yaw is atan2(-R20, sy) in both.
C7_EulerBranches ==
    (ePc = "done") =>
        /\ eOut.yaw = [deg |-> [y |-> FNeg(Rrc(2, 0)), x |-> C7_sy]]
        /\ IF FGreater(C7_sy, Dec(1, -6))
           THEN /\ eOut.pitch = [deg |-> [y |-> Rrc(2, 1), x |-> Rrc(2, 2)]]
                /\ eOut.roll = [deg |-> [y |-> Rrc(1, 0), x |-> Rrc(0, 0)]]
           ELSE /\ eOut.pitch = [deg |-> [y |-> FNeg(Rrc(1, 2)), x |-> Rrc(1, 1)]]
                /\ eOut.roll = FZero

\* C7 witness: gimbal lock at the threshold itself, with R10 not zero.
C7_Witness ==
    /\ ePc = "done" /\ C7_sy = Dec(1, -6) /\ Rrc(1, 0).m # 0
    /\ eOut.roll = FZero

\* The lowest error of the first n iterations of the call; Infinity for none.
RECURSIVE BestError(_, _)
BestError(evs, n) ==
    IF n = 0 THEN Infinity
    ELSE Bind(BestError(evs, n - 1), LAMBDA b :
            IF FLess(evs[n].error, b) THEN evs[n].error ELSE b)

\* The test of lines 195-196 against a reference error.
StopsAgainst(ref, error) ==
    \/ FLess(FAbs(FSub(ref, error)), Dec(1, -8))
    \/ FLess(error, Dec(1, -2))

StepOf(sc, k, lam) == ClampStep(SolveStep(computeJacobian(sc, k), lam))

\* C9: an iteration that reaches the update replaces rvec and tvec by the
\* iterate minus the step whether or not the error improved; lambda is
\* multiplied by 0.1 and the error recorded if it is below the recorded
\* best error, else lambda is multiplied by 10 and the record kept; and
\* each iteration evaluates the parameters the update before it left.
C9_UpdateWithoutRollback ==
    [][ /\ (iter' = iter + 1) =>
              \E error \in {ErrorAt(scene, iter)}, d \in {StepOf(scene, iter, lambda)} :
                 /\ \A i \in 0 .. 2 : /\ rvec'[i] = FSub(rvec[i], d[i])
                                      /\ tvec'[i] = FSub(tvec[i], d[i + 3])
                 /\ IF FLess(error, prevError)
                    THEN lambda' = FMul(lambda, Dec(1, -1)) /\ prevError' = error
                    ELSE lambda' = FMul(lambda, Num(10)) /\ prevError' = prevError
        /\ (Len(evals') = Len(evals) + 1) =>
              Last(evals').rvec = rvec /\ Last(evals').tvec = tvec
      ]_vars

\* C9 witness: an update was applied in an iteration whose error had not
\* improved, and the next iteration has evaluated the updated parameters.
C9_Witness ==
    /\ Len(evals) >= 3
    /\ FLess(evals[Len(evals) - 2].error, evals[Len(evals) - 1].error)
    /\ Last(evals).rvec # evals[Len(evals) - 1].rvec
    /\ FGreater(lambda, Dec(1, -3))

C10_Frames(log) == [n \in 1 .. Len(log) |-> log[n].frame]

Increasing(q) == \A m, n \in 1 .. Len(q) : m < n => q[m] < q[n]

=============================================================================
